---- MODULE Spec2Model ----
(***************************************************************************)
(* State-machine model of the Discord gateway shard client                 *)
(* (src/src/dpp/discordclient.cpp).  One record per shard holds the fields *)
(* of DiscordClient; the cluster holds last_identify.  The reader thread   *)
(* (ThreadRun / ReadLoop / HandleFrame) is modelled step by step where the *)
(* code shares state with other threads; OneSecondTimer and the producer   *)
(* calls are one action each in the coarse specifications and are split at *)
(* their mutex and queue operations in the thread-level specification.     *)
(***************************************************************************)
EXTENDS Integers, Sequences, FiniteSets, TLC

\* ------------------------------------------------------------------ bounds
\* Clock horizon of the general specifications, in seconds after the start.
MaxTime == 5
\* Clock horizon of the steady-state (timer) specification.
MaxSteadyTime == 61
\* Longest outbound queue a producer may build up.
MaxQueue == 3
\* Cap on the handshakes of a shard (reconnects + resumes).
MaxCount == 2
\* Latest second after the start at which the observed window may begin.
MaxWinStart == 1
\* Largest number a producer gives to a message.
MaxSerial == 4
\* Clock horizon of the specification of the two mutexes.
MaxLockTime == 3

\* ------------------------------------------------------- program constants
\* The identify gate: creator->last_identify + 5.
IdentifyGate == 5

\* ------------------------------------------------------------------ inputs
Shards == {1, 2}
NULL == -1
SessionIds == {"abc"}

\* An inbound gateway frame.  z is what the compressed path makes of the
\* buffer (only read when compressed): "NOTRAILER" is a buffer whose last four
\* bytes are not 00 00 FF FF, the Z_* values are inflate's return code.  json
\* says whether the decoded text parses; op, s, t, hbi (d.heartbeat_interval)
\* and sid (d.session_id) are the envelope, NULL / "" standing for absent.
\* short says that the buffer is shorter than four bytes.
Frame(z, json, op, s, t, hbi, sid) ==
    [z |-> z, json |-> json, op |-> op, s |-> s, t |-> t, hbi |-> hbi, sid |-> sid,
     short |-> FALSE]

Hello(s, hbi) == Frame("Z_OK", TRUE, 10, s, "", hbi, "")
InvalidSession(s) == Frame("Z_OK", TRUE, 9, s, "", NULL, "")
Dispatch(t, s, sid) == Frame("Z_OK", TRUE, 0, s, t, NULL, sid)
Control(op) == Frame("Z_OK", TRUE, op, NULL, "", NULL, "")

ZErrors == {"Z_NEED_DICT", "Z_STREAM_ERROR", "Z_DATA_ERROR", "Z_MEM_ERROR"}
BrokenFrames ==
    {Frame(z, TRUE, 11, 1, "", NULL, "") : z \in {"NOTRAILER"} \cup ZErrors}
    \cup {Frame("Z_OK", FALSE, 11, 1, "", NULL, "")}

\* Buffers of fewer than four bytes: z is what inflate makes of them if it is
\* called; their text, if any, does not parse.
ShortFrames ==
    {[Frame(z, FALSE, NULL, NULL, "", NULL, "") EXCEPT !.short = TRUE] :
        z \in {"Z_OK", "Z_DATA_ERROR"}}

\* The frames the gateway sends in the protocol specifications.
ProtoFrames ==
    {Hello(s, 4000) : s \in {NULL, 0, 2}}
    \cup {InvalidSession(s) : s \in {NULL, 2}}
    \cup {Dispatch("READY", s, sid) : s \in {NULL, 1}, sid \in SessionIds}
    \cup {Dispatch("RESUMED", NULL, ""), Dispatch("MESSAGE_CREATE", 2, "")}
    \cup {Control(op) : op \in {1, 7}}
    \cup BrokenFrames

\* An outbound gateway message: op 1 heartbeat (seq = last_seq), op 2 identify,
\* op 6 resume (sid, seq), op 8 a user message (seq numbers it), op 4 a voice
\* state update (sid = the guild, seq = the channel or NULL).
Out(op, sid, seq) == [op |-> op, sid |-> sid, seq |-> seq]
UserMsgs == {Out(8, "", 1)}

\* The voice calls: the guilds and channels they name, the threads that make
\* them, and the calls a thread may make.
Guilds == {"g1"}
Channels == {7, 8}
VoiceThreads == {"voice1", "voice2"}
VoiceCalls ==
    {[op |-> "connect", g |-> g, ch |-> ch] : g \in Guilds, ch \in Channels}
    \cup {[op |-> o, g |-> g, ch |-> NULL] : o \in {"disconnect", "get"}, g \in Guilds}

\* The record of a voice call, kept by its thread from the call to its return:
\*   op, g, ch  the function and its arguments
\*   pre        connecting_voice_channels when the call took voice_mutex
\*   had        find(guild_id) found a record
\*   pushed     the messages the call has enqueued
\*   front      each of them stood at the front of the queue when enqueued
\*   ret        what GetVoice returns (NULL: nullptr)
NoVoiceCall ==
    [ op |-> "none", g |-> "", ch |-> NULL, pre |-> {}, had |-> FALSE,
      pushed |-> << >>, front |-> TRUE, ret |-> NULL ]

VARIABLES
    now,            \* time(NULL), seconds
    running,        \* the process is alive (no std::terminate yet)
    last_identify,  \* cluster::last_identify
    shard,          \* shard[s]: the fields of DiscordClient s and its transport
    obs,            \* obs[s]: history of what shard s wrote and saw (ghost)
    hist            \* history of the cluster's transport writes (ghost)

vars == <<now, running, last_identify, shard, obs, hist>>

\* The clock value at construction; last_identify may lie a full gate behind it.
StartTime == IdentifyGate

\* ------------------------------------------------------------ construction
\* DiscordClient::DiscordClient: the member initialisers, then Connect().
\* last_heartbeat_ack and connect_time have no initialiser: ack is any value
\* the constructor may have found there (ackInit), connect_time is read by no
\* modelled operation.  queue_mutex is "free" or the thread that holds it;
\* inq, tpc, x, ppc and pop are the positions of the threads in the
\* thread-level specification: the threads inside a member function of
\* message_queue, where the timer thread and the producer thread are, the
\* timer's loop counter, the timer's local variable message (empty when it
\* holds none) and the producer's call.  connecting_voice_channels
\* is the set of voice records, voice_mutex is "free" or its holder, vpc and
\* vcall are the positions and the calls of the voice threads.
NewClient(comp, ackInit) ==
    [ pc |-> "new", state |-> "CONNECTING", sfd |-> "open",
      compressed |-> comp, zlib |-> "none",
      ready |-> FALSE, sessionid |-> "", last_seq |-> 0,
      heartbeat_interval |-> 0, last_heartbeat |-> StartTime,
      last_heartbeat_ack |-> ackInit, connect_time |-> 0,
      reconnects |-> 0, resumes |-> 0,
      message_queue |-> << >>, wake |-> 0,
      queue_mutex |-> "free", inq |-> {}, tpc |-> "idle", x |-> 0,
      message |-> << >>,
      ppc |-> "idle", pop |-> "none",
      connecting_voice_channels |-> {}, voice_mutex |-> "free",
      vpc |-> [th \in VoiceThreads |-> "idle"],
      vcall |-> [th \in VoiceThreads |-> NoVoiceCall] ]

\* ----------------------------------------------------------------- history
NoSnap == [sessionid |-> "", last_seq |-> 0, reconnects |-> 0, resumes |-> 0,
           connect_time |-> 0, last_identify |-> 0]

Snap(c) ==
    [sessionid |-> c.sessionid, last_seq |-> c.last_seq, reconnects |-> c.reconnects,
     resumes |-> c.resumes, connect_time |-> c.connect_time, last_identify |-> last_identify]

\* The record of a HandleFrame call, kept from the call's start until the
\* step after its return:
\*   op, s     the opcode and the s field of the frame, for the two opcodes
\*             that start a handshake (9 and 10)
\*   ret, done the return value and whether the call has returned
\*   parsed    json::parse took the frame's text (or was not reached)
\*   pre       the shard's fields when the switch on the opcode was entered
\*   hs        the frames the call itself wrote to the transport
\*   gate      the wait loop left with the identify gate passed
\*   first     no envelope had been handled since the transport last dropped
\*   firstHello  no HELLO had been handled since the transport last dropped
\*   drop      the session fields at that drop (when first or firstHello)
NoCall ==
    [ op |-> NULL, s |-> NULL, ret |-> TRUE, done |-> TRUE, parsed |-> TRUE,
      pre |-> NoSnap,
      hs |-> << >>, gate |-> TRUE, first |-> FALSE, firstHello |-> FALSE,
      drop |-> NoSnap ]

\* The record of a OneSecondTimer call, kept until the next step:
\*   on        a call is recorded
\*   closed    the call closed the socket
\*   wrote     the messages it wrote to the transport
\*   enq       it enqueued a heartbeat
\*   gap       when it wrote a heartbeat: the seconds since the heartbeat
\*             written before it on this connection (NULL: there is none)
NoTick ==
    [on |-> FALSE, closed |-> FALSE, wrote |-> << >>, enq |-> FALSE, gap |-> NULL]

\* What the history keeps per shard besides the two records:
\*   ticked            OneSecondTimer has been called in the current second
\*   drop              the session fields when the transport last went down,
\*                     kept while since or sinceHello holds
\*   since             no envelope has been handled since that drop
\*   sinceHello        no HELLO has been handled since that drop
\*   hbAt              when the latest heartbeat was written, kept while the
\*                     shard stays connected with the same heartbeat interval
\*                     (NULL: none since)
\*   held              the message the timer thread has popped and not yet
\*                     written: "none"; "live"; "doomed" when it was popped
\*                     while the supervisor dealt with the end of a
\*                     connection and had not yet cleared the queue; "stale"
\*                     once the supervisor has connected again since
NewObs ==
    [ call |-> NoCall, tick |-> NoTick, ticked |-> FALSE,
      drop |-> NoSnap, since |-> FALSE, sinceHello |-> FALSE,
      hbAt |-> NULL, held |-> "none" ]

\* The cluster's history: when the latest IDENTIFY was written (NULL: none yet)
\* and the smallest distance seen between two IDENTIFY writes (NULL: fewer
\* than two so far); winStart is the first second of the observed window
\* (NULL: not started), winCount the frames written in it.
NewHist == [identAt |-> NULL, identGap |-> NULL, winStart |-> NULL, winCount |-> 0]

\* The shards in `active` are started by Run; the others stay as constructed.
\* wins are the seconds at which the observed window may begin.
InitWith(active, comps, acks, wins) ==
    /\ now = StartTime
    /\ running = TRUE
    /\ last_identify \in {StartTime - IdentifyGate, StartTime}
    /\ shard \in [Shards -> {NewClient(comp, a) : comp \in comps \cup {FALSE}, a \in acks \cup {0}}]
    /\ \A s \in active : shard[s].compressed \in comps /\ shard[s].last_heartbeat_ack \in acks
    /\ \A s \in Shards \ active : shard[s] = NewClient(FALSE, 0)
    /\ obs = [s \in Shards |-> NewObs]
    /\ hist \in {[NewHist EXCEPT !.winStart = w] : w \in wins}

\* ---------------------------------------------------------------- helpers
\* The records of finished calls are dropped by the shard's next step.
Forget(o) ==
    [o EXCEPT !.tick = NoTick, !.call = IF @.done THEN NoCall ELSE @]

\* The shard is connected in the sense of IsConnected() and its socket is open.
Up(c) == c.state = "CONNECTED" /\ c.ready /\ c.sfd = "open"

\* The shard's fields become c and its history o; the history forgets the
\* latest heartbeat once the shard is no longer up or its interval changes.
Set(s, c, o) ==
    /\ shard' = [shard EXCEPT ![s] = c]
    /\ obs' = [obs EXCEPT ![s] =
                  IF Up(c) /\ c.heartbeat_interval = shard[s].heartbeat_interval
                  THEN o ELSE [o EXCEPT !.hbAt = NULL]]

\* A step of shard s that records nothing.
Step(s, c) == Set(s, c, Forget(obs[s]))

\* The history's note that the socket of c went down (first close only).
NoteDrop(o, c) ==
    IF c.sfd = "open"
    THEN [o EXCEPT !.drop = Snap(c), !.since = TRUE, !.sinceHello = TRUE]
    ELSE o

\* The history's note that an envelope of opcode op was handled.
NoteEnvelope(o, op) ==
    LET sh == IF op = 10 THEN FALSE ELSE o.sinceHello
    IN [o EXCEPT !.since = FALSE, !.sinceHello = sh,
                 !.drop = IF sh THEN @ ELSE NoSnap]

\* The rate limit's window, in seconds.
Window == 60

\* The cluster's history after n more frames went to a transport.
NoteWrites(h, n) ==
    IF h.winStart # NULL /\ h.winStart <= now /\ now < h.winStart + Window
    THEN [h EXCEPT !.winCount = @ + n]
    ELSE h

\* ---------------------------------------------------------------- transport
\* SSLClient::close(): the transport's own close.
TransportClose(c) == [c EXCEPT !.state = "CLOSED", !.sfd = "closed"]

\* ::close(sfd): the descriptor is closed behind the transport's back, its
\* state field is not touched.
RawClose(c) == [c EXCEPT !.sfd = "closed"]

\* SSLClient::Connect(); WSClient::Connect(): a new socket, upgrade request sent.
TransportConnect(c) == [c EXCEPT !.state = "CONNECTING", !.sfd = "open"]

\* GetState() == CONNECTED
StateConnected(c) == c.state = "CONNECTED"

\* The websocket upgrade completes inside ReadLoop.
WsHandshake(s) ==
    /\ running
    /\ shard[s].pc = "read" /\ shard[s].state = "CONNECTING" /\ shard[s].sfd = "open"
    /\ Step(s, [shard[s] EXCEPT !.state = "CONNECTED"])
    /\ UNCHANGED <<now, running, last_identify, hist>>

\* The peer (or the network) drops the connection.
ServerClose(s) ==
    /\ running
    /\ shard[s].pc # "new" /\ shard[s].sfd = "open"
    /\ Set(s, RawClose(shard[s]), NoteDrop(Forget(obs[s]), shard[s]))
    /\ UNCHANGED <<now, running, last_identify, hist>>

\* ------------------------------------------------------------------- zlib
\* SetupZLib(): TRUE in the result stands for the thrown runtime_error
\* (inflateInit failed), which only a compressed shard can meet.
SetupZLibThrows(c) == IF c.compressed THEN {FALSE, TRUE} ELSE {FALSE}
SetupZLib(c) == IF c.compressed THEN [c EXCEPT !.zlib = "init"] ELSE c
EndZLib(c) == IF c.compressed THEN [c EXCEPT !.zlib = "none"] ELSE c

\* Lines 134-141: inflate(&d_stream, Z_NO_FLUSH) consumes the buffer; the
\* stream is no longer as inflateInit left it.
Inflate(c) == [c EXCEPT !.zlib = "used"]

\* ------------------------------------------------------- Run / ThreadRun
\* Run(): the runner thread is created.
Run(s) ==
    /\ running
    /\ shard[s].pc = "new"
    /\ Step(s, [shard[s] EXCEPT !.pc = "setup"])
    /\ UNCHANGED <<now, running, last_identify, hist>>

\* An exception that leaves the thread function: std::terminate ends the
\* process.
Uncaught == FALSE

\* ThreadRun, line 104: the first SetupZLib().
ThreadStart(s) ==
    /\ running
    /\ shard[s].pc = "setup"
    /\ \E throws \in SetupZLibThrows(shard[s]) :
          IF throws
          THEN running' = Uncaught /\ Step(s, shard[s])
          ELSE running' = running
               /\ Step(s, [SetupZLib(shard[s]) EXCEPT !.pc = "read"])
    /\ UNCHANGED <<now, last_identify, hist>>

\* ThreadRun, line 106: ReadLoop() returns once the socket is gone.
ReadLoopReturn(s) ==
    /\ running
    /\ shard[s].pc = "read" /\ shard[s].sfd = "closed"
    /\ Step(s, [shard[s] EXCEPT !.pc = "sup_close"])
    /\ UNCHANGED <<now, running, last_identify, hist>>

\* ThreadRun, line 107: SSLClient::close().
SupClose(s) ==
    /\ running
    /\ shard[s].pc = "sup_close"
    /\ Set(s, [TransportClose(shard[s]) EXCEPT !.pc = "sup_ready"],
           NoteDrop(Forget(obs[s]), shard[s]))
    /\ UNCHANGED <<now, running, last_identify, hist>>

\* ThreadRun, line 108: ready = false.
SupNotReady(s) ==
    /\ running
    /\ shard[s].pc = "sup_ready"
    /\ Step(s, [shard[s] EXCEPT !.ready = FALSE, !.pc = "sup_clear"])
    /\ UNCHANGED <<now, running, last_identify, hist>>

\* ThreadRun, line 109: message_queue.clear().
SupClear(s) ==
    /\ running
    /\ shard[s].pc = "sup_clear"
    /\ Step(s, [shard[s] EXCEPT !.message_queue = << >>, !.pc = "sup_zlib"])
    /\ UNCHANGED <<now, running, last_identify, hist>>

\* A supervisor that catches the runtime_error of SetupZLib and returns from
\* the thread function.
SupZLibCaught(s) ==
    /\ running
    /\ shard[s].pc = "sup_zlib"
    /\ \E throws \in SetupZLibThrows(shard[s]) :
          IF throws
          THEN Step(s, [EndZLib(shard[s]) EXCEPT !.pc = "returned"])
          ELSE Step(s, [SetupZLib(EndZLib(shard[s])) EXCEPT !.pc = "sup_connect"])
    /\ UNCHANGED <<now, running, last_identify, hist>>

\* A supervisor that keeps the zlib context across the reconnect.
SupZLibKept(s) ==
    /\ running
    /\ shard[s].pc = "sup_zlib"
    /\ Step(s, [shard[s] EXCEPT !.pc = "sup_connect"])
    /\ UNCHANGED <<now, running, last_identify, hist>>

\* ThreadRun, lines 110-111: EndZLib(); SetupZLib().
SupZLib(s) ==
    /\ running
    /\ shard[s].pc = "sup_zlib"
    /\ \E throws \in SetupZLibThrows(shard[s]) :
          IF throws
          THEN running' = Uncaught
               /\ Step(s, EndZLib(shard[s]))
          ELSE running' = running
               /\ Step(s, [SetupZLib(EndZLib(shard[s])) EXCEPT !.pc = "sup_connect"])
    /\ UNCHANGED <<now, last_identify, hist>>

\* The history's note that a new connection was made.
NoteConnect(o) == [o EXCEPT !.held = IF @ = "doomed" THEN "stale" ELSE @]

\* ThreadRun, lines 112-114: SSLClient::Connect(); WSClient::Connect(); and
\* around the loop into ReadLoop().
SupConnect(s) ==
    /\ running
    /\ shard[s].pc = "sup_connect"
    /\ Set(s, [TransportConnect(shard[s]) EXCEPT !.pc = "read"],
           NoteConnect(Forget(obs[s])))
    /\ UNCHANGED <<now, running, last_identify, hist>>

\* ------------------------------------------------------------ HandleFrame
\* Lines 188-190: a present, non-null s replaces last_seq.
SeqAfter(c, f) == IF f.s # NULL THEN f.s ELSE c.last_seq

\* A case 9 that forgets to reset last_seq.
ResetSessionIdOnly(c) == [c EXCEPT !.sessionid = ""]

\* Case 9, lines 198-201: the session is reset before falling into case 10.
ResetSession(c) == [c EXCEPT !.sessionid = "", !.last_seq = 0]

\* Lines 205-207: d.heartbeat_interval, when present and non-null.
HelloInterval(c, f) == IF f.hbi # NULL THEN f.hbi ELSE c.heartbeat_interval

\* A line 209 that looks at the session id alone.
ResumableSessionOnly(c) == c.sessionid # ""

\* Line 209: if (last_seq && !sessionid.empty())
Resumable(c) == c.last_seq # 0 /\ c.sessionid # ""

\* A RESUME that carries no sequence number.
ResumeFrameNoSeq(c) == Out(6, c.sessionid, 0)

\* Lines 212-220 and 231-252: the two handshake frames.
ResumeFrame(c) == Out(6, c.sessionid, c.last_seq)
IdentifyFrame == Out(2, "", 0)

\* HandleEvent (events.cpp): READY sets ready and takes d.session_id, RESUMED
\* sets ready; every other event goes to the dispatcher only.
HandleEvent(c, f) ==
    CASE f.t = "READY" -> [c EXCEPT !.ready = TRUE, !.sessionid = f.sid]
      [] f.t = "RESUMED" -> [c EXCEPT !.ready = TRUE]
      [] OTHER -> c

\* The switch of lines 195-274 for the opcodes that return at once.
HandleOp(c, f) ==
    CASE f.op = 0 -> HandleEvent(c, f)
      [] f.op = 7 -> RawClose([c EXCEPT !.message_queue = << >>])
      [] f.op = 11 -> [c EXCEPT !.last_heartbeat_ack = now]
      [] OTHER -> c

\* Cases 9 and 10 up to the write of RESUME or the entry of the identify wait.
HandleHello(s, c0, o0, f) ==
    LET o == [o0 EXCEPT !.call.op = f.op, !.call.s = f.s,
                        !.call.first = obs[s].since,
                        !.call.firstHello = obs[s].sinceHello,
                        !.call.drop = obs[s].drop]
        c1 == IF f.op = 9 THEN ResetSession(c0) ELSE c0
        c == [c1 EXCEPT !.heartbeat_interval = HelloInterval(c1, f)]
    IN IF Resumable(c)
       THEN LET c2 == [c EXCEPT !.resumes = @ + 1, !.last_heartbeat_ack = now]
            IN /\ Set(s, c2, [o EXCEPT !.call.hs = <<ResumeFrame(c)>>])
               /\ hist' = NoteWrites(hist, 1)
       ELSE /\ Set(s, [c EXCEPT !.pc = "id_gate"],
                   [o EXCEPT !.call.done = FALSE, !.call.pre = Snap(c0)])
            /\ hist' = hist

\* The room the model's bounds leave for one more handshake: the counters are
\* below their cap and the clock can still reach the end of the gate.
HandshakeRoom(c) ==
    /\ c.reconnects + c.resumes < MaxCount
    /\ now + IdentifyGate <= StartTime + MaxTime

\* The gateway's frames arrive within the general horizon; after it the
\* connection is quiet.
FrameRoom == now <= StartTime + MaxTime

\* A parser that takes every text.
ParsesAnything(f) == TRUE

\* Lines 182-186: json::parse(data) returns (TRUE) or throws (FALSE).
Parses(f) == f.json

\* Lines 130-131: the test of the last four bytes for 00 00 FF FF.  For a
\* buffer shorter than four bytes buffer.size() - 4 wraps around and the test
\* reads outside the buffer: what it finds there is not defined.
TrailerSeen(f) == IF f.short THEN BOOLEAN ELSE {f.z # "NOTRAILER"}

\* HandleFrame(buffer), called by ReadLoop for frame f.
HandleFrame(s, f) ==
    /\ running
    /\ FrameRoom
    /\ shard[s].pc = "read" /\ StateConnected(shard[s]) /\ shard[s].sfd = "open"
    /\ (Parses(f) /\ f.op \in {9, 10}) => HandshakeRoom(shard[s])
    /\ \E seen \in TrailerSeen(f) :
       LET c0 == shard[s]
           c == IF c0.compressed /\ seen THEN Inflate(c0) ELSE c0
           o == [Forget(obs[s]) EXCEPT
                    !.call = NoCall]
       IN IF c.compressed /\ ~seen
          THEN Set(s, c, [o EXCEPT !.call.ret = FALSE]) /\ hist' = hist
          ELSE IF c.compressed /\ f.z \in ZErrors
          THEN Set(s, TransportClose(c), NoteDrop(o, c)) /\ hist' = hist
          ELSE IF ~Parses(f)
          THEN Set(s, c, [o EXCEPT !.call.parsed = FALSE]) /\ hist' = hist
          ELSE LET c1 == [c EXCEPT !.last_seq = SeqAfter(c, f)]
                   o1 == NoteEnvelope(o, f.op)
               IN IF f.op \in {9, 10}
                  THEN HandleHello(s, c1, o1, f)
                  ELSE LET c2 == HandleOp(c1, f)
                           o2 == IF f.op = 7 THEN NoteDrop(o1, c1) ELSE o1
                       IN Set(s, c2, o2) /\ hist' = hist
    /\ UNCHANGED <<now, running, last_identify>>

\* Lines 225-229: the wait loop reads creator->last_identify; while the gate
\* is closed it sleeps for the rest of it and reads again.
IdentifyWait(s) ==
    /\ running
    /\ shard[s].pc = "id_gate"
    /\ IF now < last_identify + IdentifyGate
       THEN Step(s, [shard[s] EXCEPT !.pc = "id_sleep", !.wake = last_identify + IdentifyGate])
       ELSE Set(s, [shard[s] EXCEPT !.pc = "id_write"],
                [Forget(obs[s]) EXCEPT !.call.gate = (now >= last_identify + IdentifyGate)])
    /\ UNCHANGED <<now, running, last_identify, hist>>

\* Line 228: sleep_for(wait) returns.
IdentifyWake(s) ==
    /\ running
    /\ shard[s].pc = "id_sleep" /\ now >= shard[s].wake
    /\ Step(s, [shard[s] EXCEPT !.pc = "id_gate", !.wake = 0])
    /\ UNCHANGED <<now, running, last_identify, hist>>

\* The history of IDENTIFY writes after one more at the current second.
NoteIdentify(h) ==
    [h EXCEPT !.identAt = now,
              !.identGap = IF h.identAt = NULL THEN @
                           ELSE IF @ = NULL \/ now - h.identAt < @ THEN now - h.identAt
                           ELSE @]

\* Line 253: this->write(obj.dump()) of the IDENTIFY frame.
IdentifyWrite(s) ==
    /\ running
    /\ shard[s].pc = "id_write"
    /\ Set(s, [shard[s] EXCEPT !.pc = "id_set"],
           [Forget(obs[s]) EXCEPT !.call.hs = Append(@, IdentifyFrame)])
    /\ hist' = NoteWrites(NoteIdentify(hist), 1)
    /\ UNCHANGED <<now, running, last_identify>>

\* Lines 254-257: connect_time = creator->last_identify = time(NULL);
\* reconnects++; last_heartbeat_ack = time(nullptr); HandleFrame returns.
IdentifySet(s) ==
    /\ running
    /\ shard[s].pc = "id_set"
    /\ last_identify' = now
    /\ LET c == [shard[s] EXCEPT !.connect_time = now, !.reconnects = @ + 1,
                                 !.last_heartbeat_ack = now, !.pc = "read"]
       IN Set(s, c, [Forget(obs[s]) EXCEPT !.call.done = TRUE])
    /\ UNCHANGED <<now, running, hist>>

\* ----------------------------------------------------------- outbound queue
\* A QueueMessage that ignores to_front.
EnqueueBack(q, m, to_front) == Append(q, m)

\* QueueMessage(j, to_front), lines 349-353.
Enqueue(q, m, to_front) == IF to_front THEN <<m>> \o q ELSE Append(q, m)

\* QueueMessage called by a producer thread.
QueueMessage(s, m, to_front) ==
    /\ running
    /\ shard[s].pc # "new"
    /\ Len(shard[s].message_queue) < MaxQueue
    /\ Step(s, [shard[s] EXCEPT !.message_queue = Enqueue(@, m, to_front)])
    /\ UNCHANGED <<now, running, last_identify, hist>>

\* ClearQueue called by a producer thread.
ClearQueue(s) ==
    /\ running
    /\ shard[s].pc # "new"
    /\ shard[s].message_queue # << >>
    /\ Step(s, [shard[s] EXCEPT !.message_queue = << >>])
    /\ UNCHANGED <<now, running, last_identify, hist>>

\* --------------------------------------------------------- OneSecondTimer
\* IsConnected(), line 286.
IsConnected(c) == StateConnected(c) /\ c.ready

\* Line 377: (time(nullptr) - last_heartbeat_ack) > heartbeat_interval * 2.
\* The product is taken in uint32_t and compared as a time_t; the intervals the
\* frames carry are far below 2^31, so it does not wrap.
LivenessExpired(c) == (now - c.last_heartbeat_ack) > c.heartbeat_interval * 2

\* A loop bound with <= in place of <.
DrainCountInclusive == (now % 2) + 2

\* Line 385: x < (time(NULL) % 2) + 1
DrainCount == (now % 2) + 1

\* Lines 385-392: the messages the loop pops and writes, and what is left.
Drained(q) == SubSeq(q, 1, IF Len(q) < DrainCount THEN Len(q) ELSE DrainCount)
Undrained(q) == SubSeq(q, Len(Drained(q)) + 1, Len(q))

\* Lines 397-399: heartbeat_interval && last_seq, and
\* time(NULL) > last_heartbeat + ((heartbeat_interval / 1000.0) * 0.75),
\* multiplied out by 4000 to stay in the integers.
HeartbeatDue(c) ==
    /\ c.heartbeat_interval # 0 /\ c.last_seq # 0
    /\ 4000 * now > 4000 * c.last_heartbeat + 3 * c.heartbeat_interval

\* Line 400: json({{"op", 1}, {"d", last_seq}})
HeartbeatFrame(c) == Out(1, "", c.last_seq)

\* A heartbeat among the frames written to the open socket of c moves hbAt
\* and leaves its distance to the one before in the tick's record.
NoteHeartbeats(o, c, wrote) ==
    IF c.sfd = "open" /\ \E i \in 1..Len(wrote) : wrote[i].op = 1
    THEN [o EXCEPT !.hbAt = now,
                   !.tick.gap = IF o.hbAt = NULL THEN NULL ELSE now - o.hbAt]
    ELSE o

\* OneSecondTimer(), called by the cluster's timer thread once a second.
OneSecondTimer(s) ==
    /\ running
    /\ shard[s].pc # "new"
    /\ ~obs[s].ticked
    /\ LET c == shard[s]
           t == [NoTick EXCEPT !.on = TRUE]
           o == [Forget(obs[s]) EXCEPT !.ticked = TRUE]
       IN IF ~IsConnected(c)
          THEN Set(s, c, [o EXCEPT !.tick = t]) /\ hist' = hist
          ELSE IF LivenessExpired(c)
          THEN /\ Set(s, RawClose([c EXCEPT !.message_queue = << >>]),
                      NoteDrop([o EXCEPT !.tick = [t EXCEPT !.closed = TRUE]], c))
               /\ hist' = hist
          ELSE LET wrote == Drained(c.message_queue)
                   c1 == [c EXCEPT !.message_queue = Undrained(@)]
                   due == HeartbeatDue(c1)
                   c2 == IF due
                         THEN [c1 EXCEPT !.message_queue = Enqueue(@, HeartbeatFrame(c1), TRUE),
                                         !.last_heartbeat = now]
                         ELSE c1
                   t2 == [t EXCEPT !.wrote = wrote, !.enq = due]
               IN /\ Set(s, c2, NoteHeartbeats([o EXCEPT !.tick = t2], c, wrote))
                  /\ hist' = NoteWrites(hist, Len(wrote))
    /\ UNCHANGED <<now, running, last_identify>>

\* ------------------------------------------------------------ thread level
\* The same operations split at their mutex and queue operations.  A thread
\* is in inq from the step that enters a member function of message_queue to
\* the step that leaves it.
Enter(c, th) == [c EXCEPT !.inq = @ \cup {th}]
Leave(c, th) == [c EXCEPT !.inq = @ \ {th}]

\* std::lock_guard<std::mutex> locker(queue_mutex) and its destructor.
Lock(c, th) == [c EXCEPT !.queue_mutex = th]
Unlock(c) == [c EXCEPT !.queue_mutex = "free"]

\* ThreadRun, line 109, entered: message_queue.clear() with no lock taken.
SupClearBegin(s) ==
    /\ running
    /\ shard[s].pc = "sup_clear"
    /\ Step(s, [Enter(shard[s], "reader") EXCEPT !.pc = "sup_clearing"])
    /\ UNCHANGED <<now, running, last_identify, hist>>

\* ThreadRun, line 109, left: the queue is empty.
SupClearEnd(s) ==
    /\ running
    /\ shard[s].pc = "sup_clearing"
    /\ Step(s, [Leave(shard[s], "reader") EXCEPT !.message_queue = << >>, !.pc = "sup_zlib"])
    /\ UNCHANGED <<now, running, last_identify, hist>>

\* HandleFrame, case 7 entered (lines 265-267): message_queue.clear() with no
\* lock taken.
ReconnectBegin(s) ==
    /\ running
    /\ FrameRoom
    /\ shard[s].pc = "read" /\ StateConnected(shard[s]) /\ shard[s].sfd = "open"
    /\ Set(s, [Enter(shard[s], "reader") EXCEPT !.pc = "op7_clearing"],
           NoteEnvelope(Forget(obs[s]), 7))
    /\ UNCHANGED <<now, running, last_identify, hist>>

\* HandleFrame, case 7 left (lines 267-269): the queue is empty, ::close(sfd).
ReconnectEnd(s) ==
    /\ running
    /\ shard[s].pc = "op7_clearing"
    /\ Set(s, [RawClose(Leave(shard[s], "reader")) EXCEPT !.message_queue = << >>, !.pc = "read"],
           NoteDrop(Forget(obs[s]), shard[s]))
    /\ UNCHANGED <<now, running, last_identify, hist>>

\* OneSecondTimer, lines 371-384: not connected, timed out, or on to the loop.
TimerStart(s) ==
    /\ running
    /\ shard[s].pc # "new" /\ shard[s].tpc = "idle"
    /\ ~obs[s].ticked
    /\ LET c == shard[s]
           o == [Forget(obs[s]) EXCEPT !.ticked = TRUE]
       IN IF ~IsConnected(c) THEN Set(s, c, o)
          ELSE IF LivenessExpired(c)
          THEN Set(s, [Enter(c, "timer") EXCEPT !.tpc = "t_clearing"], o)
          ELSE Set(s, [c EXCEPT !.tpc = "t_loop", !.x = 0], o)
    /\ UNCHANGED <<now, running, last_identify, hist>>

\* Lines 379-381: message_queue.clear() with no lock taken; ::close(sfd).
TimerClear(s) ==
    /\ running
    /\ shard[s].tpc = "t_clearing"
    /\ Set(s, [RawClose(Leave(shard[s], "timer")) EXCEPT !.message_queue = << >>, !.tpc = "idle"],
           NoteDrop(Forget(obs[s]), shard[s]))
    /\ UNCHANGED <<now, running, last_identify, hist>>

\* Lines 385-386: the loop condition, then the lock_guard.
TimerLock(s) ==
    /\ running
    /\ shard[s].tpc = "t_loop"
    /\ IF shard[s].x < DrainCount
       THEN /\ shard[s].queue_mutex = "free"
            /\ Step(s, [Enter(Lock(shard[s], "timer"), "timer") EXCEPT !.tpc = "t_pop"])
       ELSE Step(s, [shard[s] EXCEPT !.tpc = "t_hb", !.x = 0])
    /\ UNCHANGED <<now, running, last_identify, hist>>

\* The positions of the reader thread at which the supervisor deals with the
\* end of a connection and has not yet come to clear its queue: ThreadRun
\* lines 107-109.
Ending == {"sup_close", "sup_ready", "sup_clear"}

\* Lines 387-389: size(); when the queue is empty the lock is released and the
\* loop goes on, else message = front(); pop_front() and the call of write()
\* is entered with the lock held.
TimerPop(s) ==
    /\ running
    /\ shard[s].tpc = "t_pop"
    /\ LET c == shard[s]
           q == c.message_queue
       IN IF q = << >>
          THEN Step(s, [Unlock(Leave(c, "timer")) EXCEPT !.x = @ + 1, !.tpc = "t_loop"])
          ELSE Set(s, [Leave(c, "timer") EXCEPT
                         !.message_queue = Tail(q), !.message = << Head(q) >>,
                         !.tpc = "t_write"],
                   [Forget(obs[s]) EXCEPT
                         !.held = IF c.pc \in Ending THEN "doomed" ELSE "live"])
    /\ UNCHANGED <<now, running, last_identify, hist>>

\* A drain loop whose lock_guard is not destroyed at the end of the loop body.
TimerWriteKeepsLock(s) ==
    /\ running
    /\ shard[s].tpc = "t_write"
    /\ Set(s, [shard[s] EXCEPT !.message = << >>, !.x = @ + 1, !.tpc = "t_loop"],
           [Forget(obs[s]) EXCEPT !.held = "none"])
    /\ hist' = NoteWrites(hist, 1)
    /\ UNCHANGED <<now, running, last_identify>>

\* Lines 390-392: this->write(message) returns, the lock is released.
TimerWrite(s) ==
    /\ running
    /\ shard[s].tpc = "t_write"
    /\ Set(s, [Unlock(shard[s]) EXCEPT !.message = << >>, !.x = @ + 1, !.tpc = "t_loop"],
           [Forget(obs[s]) EXCEPT !.held = "none"])
    /\ hist' = NoteWrites(hist, 1)
    /\ UNCHANGED <<now, running, last_identify>>

\* Lines 397-399: is a heartbeat due?
TimerHeartbeat(s) ==
    /\ running
    /\ shard[s].tpc = "t_hb"
    /\ Step(s, [shard[s] EXCEPT !.tpc = IF HeartbeatDue(shard[s]) THEN "t_hb_lock" ELSE "idle"])
    /\ UNCHANGED <<now, running, last_identify, hist>>

\* Line 400 into QueueMessage, line 348: the lock_guard.
TimerHbLock(s) ==
    /\ running
    /\ shard[s].tpc = "t_hb_lock"
    /\ shard[s].queue_mutex = "free"
    /\ Step(s, [Enter(Lock(shard[s], "timer"), "timer") EXCEPT !.tpc = "t_hb_push"])
    /\ UNCHANGED <<now, running, last_identify, hist>>

\* Lines 349-353 and 401: push_front of the heartbeat, the lock released,
\* last_heartbeat = time(NULL).
TimerHbPush(s) ==
    /\ running
    /\ shard[s].tpc = "t_hb_push"
    /\ Step(s, [Unlock(Leave(shard[s], "timer")) EXCEPT
                   !.message_queue = Enqueue(@, HeartbeatFrame(shard[s]), TRUE),
                   !.last_heartbeat = now, !.tpc = "idle"])
    /\ UNCHANGED <<now, running, last_identify, hist>>

\* What a producer thread may call: QueueMessage(m, true), QueueMessage(m,
\* false), ClearQueue() and GetQueueSize().
ProducerOps == {"push_front", "push_back", "clear", "size"}

\* A producer thread enters one of them.
ProducerCall(s, op) ==
    /\ running
    /\ shard[s].pc # "new" /\ shard[s].ppc = "idle"
    /\ op \in {"push_front", "push_back"} => Len(shard[s].message_queue) < MaxQueue
    /\ Step(s, [shard[s] EXCEPT !.ppc = "p_lock", !.pop = op])
    /\ UNCHANGED <<now, running, last_identify, hist>>

\* Lines 348, 358, 364: the lock_guard.
ProducerLock(s) ==
    /\ running
    /\ shard[s].ppc = "p_lock"
    /\ shard[s].queue_mutex = "free"
    /\ Step(s, [Enter(Lock(shard[s], "producer"), "producer") EXCEPT !.ppc = "p_in"])
    /\ UNCHANGED <<now, running, last_identify, hist>>

\* Lines 349-353, 359, 365: the queue operation, the lock released.
ProducerDone(s) ==
    /\ running
    /\ shard[s].ppc = "p_in"
    /\ LET c == shard[s]
           q == c.message_queue
           m == CHOOSE u \in UserMsgs : TRUE
           q2 == CASE c.pop = "push_front" -> Enqueue(q, m, TRUE)
                   [] c.pop = "push_back" -> Enqueue(q, m, FALSE)
                   [] c.pop = "clear" -> << >>
                   [] OTHER -> q
       IN Step(s, [Unlock(Leave(c, "producer")) EXCEPT
                     !.message_queue = q2, !.ppc = "idle", !.pop = "none"])
    /\ UNCHANGED <<now, running, last_identify, hist>>

\* ------------------------------------------------------------------ voice
\* The build has HAVE_VOICE defined: without it the three functions are empty.
HAVE_VOICE == TRUE

\* new voiceconn(this, channel_id), stored under guild_id.
VoiceConn(g, ch) == [guild |-> g, channel |-> ch]

\* connecting_voice_channels.find(guild_id): the records under guild_id.
Find(m, g) == {r \in m : r.guild = g}

\* connecting_voice_channels[guild_id] = r: the map keeps one entry per key.
Store(m, g, r) == (m \ Find(m, g)) \cup {r}

\* Lines 460-469 and 479-488: the op 4 message.
VoiceStateUpdate(g, ch) == Out(4, g, ch)

\* A thread with no voice call under way enters ConnectVoice, DisconnectVoice
\* or GetVoice.
VoiceCall(s, th, call) ==
    /\ running /\ HAVE_VOICE
    /\ shard[s].pc # "new" /\ shard[s].vpc[th] = "idle"
    /\ call.op # "get" => Len(shard[s].message_queue) < MaxQueue
    /\ Step(s, [shard[s] EXCEPT
                   !.vpc[th] = "v_lock",
                   !.vcall[th] = [NoVoiceCall EXCEPT !.op = call.op, !.g = call.g,
                                                    !.ch = call.ch]])
    /\ UNCHANGED <<now, running, last_identify, hist>>

\* Lines 455, 475, 497: std::lock_guard<std::mutex> lock(voice_mutex).
VoiceLock(s, th) ==
    /\ running
    /\ shard[s].vpc[th] = "v_lock"
    /\ shard[s].voice_mutex = "free"
    /\ Step(s, [shard[s] EXCEPT
                   !.voice_mutex = th, !.vpc[th] = "v_find",
                   !.vcall[th].pre = shard[s].connecting_voice_channels])
    /\ UNCHANGED <<now, running, last_identify, hist>>

\* A ConnectVoice and a DisconnectVoice that do not look at what find()
\* returned.
VoiceFindUnchecked(s, th) ==
    /\ running
    /\ shard[s].vpc[th] = "v_find"
    /\ LET c == shard[s]
           k == c.vcall[th]
           m == c.connecting_voice_channels
           had == Find(m, k.g) # {}
           c1 == [c EXCEPT !.vcall[th].had = had]
       IN CASE k.op = "connect" ->
                 Step(s, [c1 EXCEPT
                            !.connecting_voice_channels = Store(m, k.g, VoiceConn(k.g, k.ch)),
                            !.vpc[th] = "v_qlock"])
            [] k.op = "disconnect" ->
                 Step(s, [c1 EXCEPT !.connecting_voice_channels = m \ Find(m, k.g),
                                    !.vpc[th] = "v_qlock"])
            [] OTHER ->
                 Step(s, [c1 EXCEPT !.vpc[th] = "v_unlock"])
    /\ UNCHANGED <<now, running, last_identify, hist>>

\* Lines 456-457, 476-479, 498-501: find(guild_id); ConnectVoice stores a new
\* record when there is none, DisconnectVoice deletes and erases the one
\* there is, and both go on to QueueMessage; GetVoice returns what it found.
VoiceFind(s, th) ==
    /\ running
    /\ shard[s].vpc[th] = "v_find"
    /\ LET c == shard[s]
           k == c.vcall[th]
           m == c.connecting_voice_channels
           had == Find(m, k.g) # {}
           c1 == [c EXCEPT !.vcall[th].had = had]
       IN CASE k.op = "connect" /\ ~had ->
                 Step(s, [c1 EXCEPT
                            !.connecting_voice_channels = Store(m, k.g, VoiceConn(k.g, k.ch)),
                            !.vpc[th] = "v_qlock"])
            [] k.op = "disconnect" /\ had ->
                 Step(s, [c1 EXCEPT !.connecting_voice_channels = m \ Find(m, k.g),
                                    !.vpc[th] = "v_qlock"])
            [] k.op = "get" /\ had ->
                 Step(s, [c1 EXCEPT
                            !.vcall[th].ret = (CHOOSE r \in Find(m, k.g) : TRUE).channel,
                            !.vpc[th] = "v_unlock"])
            [] OTHER ->
                 Step(s, [c1 EXCEPT !.vpc[th] = "v_unlock"])
    /\ UNCHANGED <<now, running, last_identify, hist>>

\* Lines 460 and 479 into QueueMessage, line 348: the lock_guard on
\* queue_mutex, taken with voice_mutex held.
VoiceQueueLock(s, th) ==
    /\ running
    /\ shard[s].vpc[th] = "v_qlock"
    /\ shard[s].queue_mutex = "free"
    /\ Step(s, [Enter(Lock(shard[s], th), th) EXCEPT !.vpc[th] = "v_push"])
    /\ UNCHANGED <<now, running, last_identify, hist>>

\* Lines 349-353: push_front of the op 4 message, queue_mutex released.
VoicePush(s, th) ==
    /\ running
    /\ shard[s].vpc[th] = "v_push"
    /\ LET c == shard[s]
           k == c.vcall[th]
           m == VoiceStateUpdate(k.g, k.ch)
           q == Enqueue(c.message_queue, m, TRUE)
       IN Step(s, [Unlock(Leave(c, th)) EXCEPT
                     !.message_queue = q,
                     !.vcall[th].pushed = Append(@, m),
                     !.vcall[th].front = (@ /\ Head(q) = m),
                     !.vpc[th] = "v_unlock"])
    /\ UNCHANGED <<now, running, last_identify, hist>>

\* The function returns: the lock_guard on voice_mutex is destroyed.
VoiceReturn(s, th) ==
    /\ running
    /\ shard[s].vpc[th] = "v_unlock"
    /\ Step(s, [shard[s] EXCEPT !.voice_mutex = "free", !.vpc[th] = "idle",
                                !.vcall[th] = NoVoiceCall])
    /\ UNCHANGED <<now, running, last_identify, hist>>

\* --------------------------------------------------------------- the clock
\* One second passes; limit is the horizon, in seconds after the start.
Advance(limit) ==
    /\ running
    /\ now < StartTime + limit
    /\ now' = now + 1
    /\ obs' = [s \in Shards |-> [Forget(obs[s]) EXCEPT !.ticked = FALSE]]
    /\ UNCHANGED <<running, last_identify, shard, hist>>

Tick == Advance(MaxTime)

\* The cluster's timer thread calls OneSecondTimer of every running shard
\* once in every second: the second passes after the call.
Paced(active) == \A s \in active : shard[s].pc = "new" \/ obs[s].ticked

\* ---------------------------------------------------------- specifications
\* One shard of the cluster is run: its reader thread, the timer thread and
\* the gateway at the other end.
Single == {1}

Next ==
    \/ Tick
    \/ \E s \in Single : Run(s)
    \/ \E s \in Single : ThreadStart(s)
    \/ \E s \in Single : WsHandshake(s)
    \/ \E s \in Single : ServerClose(s)
    \/ \E s \in Single, f \in ProtoFrames : HandleFrame(s, f)
    \/ \E s \in Single : IdentifyWait(s)
    \/ \E s \in Single : IdentifyWake(s)
    \/ \E s \in Single : IdentifyWrite(s)
    \/ \E s \in Single : IdentifySet(s)
    \/ \E s \in Single : ReadLoopReturn(s)
    \/ \E s \in Single : SupClose(s)
    \/ \E s \in Single : SupNotReady(s)
    \/ \E s \in Single : SupClear(s)
    \/ \E s \in Single : SupZLib(s)
    \/ \E s \in Single : SupConnect(s)


Init == InitWith(Single, BOOLEAN, {0}, {NULL})

Spec == Init /\ [][Next]_vars

\* The cluster: both shards are run and each gateway connection delivers the
\* frames that start a handshake.
ClusterFrames == {Hello(NULL, 4000), InvalidSession(NULL)}

NextCluster ==
    \/ Tick
    \/ \E s \in Shards : Run(s)
    \/ \E s \in Shards : ThreadStart(s)
    \/ \E s \in Shards : WsHandshake(s)
    \/ \E s \in Shards, f \in ClusterFrames : HandleFrame(s, f)
    \/ \E s \in Shards : IdentifyWait(s)
    \/ \E s \in Shards : IdentifyWake(s)
    \/ \E s \in Shards : IdentifyWrite(s)
    \/ \E s \in Shards : IdentifySet(s)

InitCluster == InitWith(Shards, {FALSE}, {0}, {NULL})

SpecCluster == InitCluster /\ [][NextCluster]_vars

\* The timer: one shard with its reader thread, the timer thread calling
\* OneSecondTimer once a second, and producer threads.
TimerFrames ==
    {Hello(NULL, hbi) : hbi \in {1000, 4000}}
    \cup {Dispatch("READY", 1, "abc"), Control(11)}

\* What the constructor may have found in last_heartbeat_ack.
AckInits == {0, StartTime}

TickTimer == Paced(Single) /\ Advance(MaxTime)

NextTimer ==
    \/ TickTimer
    \/ \E s \in Single : Run(s)
    \/ \E s \in Single : ThreadStart(s)
    \/ \E s \in Single : WsHandshake(s)
    \/ \E s \in Single, f \in TimerFrames : HandleFrame(s, f)
    \/ \E s \in Single : IdentifyWait(s)
    \/ \E s \in Single : IdentifyWake(s)
    \/ \E s \in Single : IdentifyWrite(s)
    \/ \E s \in Single : IdentifySet(s)
    \/ \E s \in Single : OneSecondTimer(s)
    \/ \E s \in Single, m \in UserMsgs, to_front \in BOOLEAN : QueueMessage(s, m, to_front)
    \/ \E s \in Single : ClearQueue(s)
    \/ \E s \in Single : ReadLoopReturn(s)
    \/ \E s \in Single : SupClose(s)
    \/ \E s \in Single : SupNotReady(s)
    \/ \E s \in Single : SupClear(s)
    \/ \E s \in Single : SupZLib(s)
    \/ \E s \in Single : SupConnect(s)

InitTimer == InitWith(Single, {FALSE}, AckInits, {NULL})

SpecTimer == InitTimer /\ [][NextTimer]_vars

\* The steady state: the gateway's frames arrive in the first second, then
\* the connection is quiet and the timer drains what the producers enqueue
\* while the frames written in one window of 60 seconds are counted.
RateFrames == {Hello(NULL, 1000), Dispatch("READY", 1, "abc")}

\* The reader thread's steps between two blocking calls take no time.
Quiet(active) == \A s \in active : shard[s].pc \in {"new", "read", "id_sleep"}

\* The backlog the producers keep up in the steady state; the timer takes at
\* most two messages a second from it.
RateBacklog == MaxQueue - 1

TickRate == Paced(Single) /\ Quiet(Single) /\ Advance(MaxSteadyTime)

NextRate ==
    \/ TickRate
    \/ \E s \in Single : Run(s)
    \/ \E s \in Single : ThreadStart(s)
    \/ \E s \in Single : WsHandshake(s)
    \/ \E s \in Single, f \in RateFrames : now = StartTime /\ HandleFrame(s, f)
    \/ \E s \in Single : IdentifyWait(s)
    \/ \E s \in Single : IdentifyWake(s)
    \/ \E s \in Single : IdentifyWrite(s)
    \/ \E s \in Single : IdentifySet(s)
    \/ \E s \in Single : OneSecondTimer(s)
    \/ \E s \in Single, m \in UserMsgs, to_front \in BOOLEAN :
          Len(shard[s].message_queue) < RateBacklog /\ QueueMessage(s, m, to_front)

InitRate == InitWith(Single, {FALSE}, {StartTime}, StartTime .. StartTime + MaxWinStart)

SpecRate == InitRate /\ [][NextRate]_vars

\* The supervisor under fair scheduling: the reader thread of a running
\* process eventually takes its next step, and the clock does not stop.
FairFrames ==
    {Hello(NULL, 4000), Dispatch("READY", 1, "abc"), Control(7),
     Frame("Z_DATA_ERROR", TRUE, 11, NULL, "", NULL, "")}

NextFair ==
    \/ Tick
    \/ \E s \in Single : Run(s)
    \/ \E s \in Single : ThreadStart(s)
    \/ \E s \in Single : WsHandshake(s)
    \/ \E s \in Single : ServerClose(s)
    \/ \E s \in Single, f \in FairFrames : HandleFrame(s, f)
    \/ \E s \in Single : IdentifyWait(s)
    \/ \E s \in Single : IdentifyWake(s)
    \/ \E s \in Single : IdentifyWrite(s)
    \/ \E s \in Single : IdentifySet(s)
    \/ \E s \in Single : OneSecondTimer(s)
    \/ \E s \in Single : ReadLoopReturn(s)
    \/ \E s \in Single : SupClose(s)
    \/ \E s \in Single : SupNotReady(s)
    \/ \E s \in Single : SupClear(s)
    \/ \E s \in Single : SupZLib(s)
    \/ \E s \in Single : SupConnect(s)

Fairness ==
    /\ WF_vars(Tick)
    /\ \A s \in Single :
          /\ WF_vars(ThreadStart(s))
          /\ WF_vars(IdentifyWait(s)) /\ WF_vars(IdentifyWake(s))
          /\ WF_vars(IdentifyWrite(s)) /\ WF_vars(IdentifySet(s))
          /\ WF_vars(ReadLoopReturn(s)) /\ WF_vars(SupClose(s))
          /\ WF_vars(SupNotReady(s)) /\ WF_vars(SupClear(s))
          /\ WF_vars(SupZLib(s)) /\ WF_vars(SupConnect(s))

InitFair == InitWith(Single, BOOLEAN, {0}, {NULL})

SpecFair == InitFair /\ [][NextFair]_vars /\ Fairness

\* The threads: one shard with its reader thread, the timer thread and a
\* producer thread, each taking the steps of its operations one at a time.
ThreadFrames == {Hello(NULL, 4000), Dispatch("READY", 1, "abc"), InvalidSession(NULL)}

\* The calls of the timer thread and of the producer thread take no time.
Idle(active) == \A s \in active : shard[s].tpc = "idle" /\ shard[s].ppc = "idle"

\* No call of the voice threads is under way.
IdleVoice(active) == \A s \in active : \A th \in VoiceThreads : shard[s].vpc[th] = "idle"

TickThreads == Idle(Single) /\ Quiet(Single) /\ Advance(MaxTime)

NextThreads ==
    \/ TickThreads
    \/ \E s \in Single : Run(s)
    \/ \E s \in Single : ThreadStart(s)
    \/ \E s \in Single : WsHandshake(s)
    \/ \E s \in Single, f \in ThreadFrames : HandleFrame(s, f)
    \/ \E s \in Single : ReconnectBegin(s)
    \/ \E s \in Single : ReconnectEnd(s)
    \/ \E s \in Single : IdentifyWait(s)
    \/ \E s \in Single : IdentifyWake(s)
    \/ \E s \in Single : IdentifyWrite(s)
    \/ \E s \in Single : IdentifySet(s)
    \/ \E s \in Single : ReadLoopReturn(s)
    \/ \E s \in Single : SupClose(s)
    \/ \E s \in Single : SupNotReady(s)
    \/ \E s \in Single : SupClearBegin(s)
    \/ \E s \in Single : SupClearEnd(s)
    \/ \E s \in Single : SupZLib(s)
    \/ \E s \in Single : SupConnect(s)
    \/ \E s \in Single : TimerStart(s)
    \/ \E s \in Single : TimerClear(s)
    \/ \E s \in Single : TimerLock(s)
    \/ \E s \in Single : TimerPop(s)
    \/ \E s \in Single : TimerWrite(s)
    \/ \E s \in Single : TimerHeartbeat(s)
    \/ \E s \in Single : TimerHbLock(s)
    \/ \E s \in Single : TimerHbPush(s)
    \/ \E s \in Single, op \in ProducerOps : ProducerCall(s, op)
    \/ \E s \in Single : ProducerLock(s)
    \/ \E s \in Single : ProducerDone(s)

InitThreads == InitWith(Single, {FALSE}, {0}, {NULL})

SpecThreads == InitThreads /\ [][NextThreads]_vars

\* The order of the queue: one shard with its reader thread, the timer thread
\* and producers that number their messages.  A producer's message is a user
\* message (op 8) enqueued at the back or a voice state update (op 4)
\* enqueued at the front, and carries the next number after those in the
\* queue.
OrderFrames == {Hello(NULL, 1000), Dispatch("READY", 1, "abc")}
OrderOps == {4, 8}
Priority(m) == m.op \in {1, 4}

NextSerial(q) ==
    LET used == {q[i].seq : i \in {j \in 1..Len(q) : q[j].op \in OrderOps}}
    IN IF used = {} THEN 1 ELSE 1 + CHOOSE n \in used : \A k \in used : k <= n

Produce(s, op) ==
    /\ NextSerial(shard[s].message_queue) <= MaxSerial
    /\ QueueMessage(s, Out(op, "", NextSerial(shard[s].message_queue)), op = 4)

TickOrder == Paced(Single) /\ Quiet(Single) /\ Advance(MaxTime)

NextOrder ==
    \/ TickOrder
    \/ \E s \in Single : Run(s)
    \/ \E s \in Single : ThreadStart(s)
    \/ \E s \in Single : WsHandshake(s)
    \/ \E s \in Single, f \in OrderFrames : HandleFrame(s, f)
    \/ \E s \in Single : IdentifyWait(s)
    \/ \E s \in Single : IdentifyWake(s)
    \/ \E s \in Single : IdentifyWrite(s)
    \/ \E s \in Single : IdentifySet(s)
    \/ \E s \in Single : OneSecondTimer(s)
    \/ \E s \in Single, op \in OrderOps : Produce(s, op)
    \/ \E s \in Single : ClearQueue(s)

InitOrder == InitWith(Single, {FALSE}, {StartTime}, {NULL})

SpecOrder == InitOrder /\ [][NextOrder]_vars

\* The codec: one shard, compressed or not, with its reader thread and a
\* gateway that also sends frames that do not inflate or do not parse.
CodecFrames ==
    {Hello(NULL, 4000), Dispatch("READY", 1, "abc"), Dispatch("MESSAGE_CREATE", 2, "")}
    \cup BrokenFrames \cup ShortFrames

NextCodec ==
    \/ Tick
    \/ \E s \in Single : Run(s)
    \/ \E s \in Single : ThreadStart(s)
    \/ \E s \in Single : WsHandshake(s)
    \/ \E s \in Single, f \in CodecFrames : HandleFrame(s, f)
    \/ \E s \in Single : IdentifyWait(s)
    \/ \E s \in Single : IdentifyWake(s)
    \/ \E s \in Single : IdentifyWrite(s)
    \/ \E s \in Single : IdentifySet(s)
    \/ \E s \in Single : ReadLoopReturn(s)
    \/ \E s \in Single : SupClose(s)
    \/ \E s \in Single : SupNotReady(s)
    \/ \E s \in Single : SupClear(s)
    \/ \E s \in Single : SupZLib(s)
    \/ \E s \in Single : SupConnect(s)

InitCodec == InitWith(Single, BOOLEAN, {0}, {NULL})

SpecCodec == InitCodec /\ [][NextCodec]_vars

\* Voice: the application's threads on one shard that has been run: two
\* threads that call ConnectVoice, DisconnectVoice and GetVoice and a producer
\* thread, each taking the steps of its operations one at a time.
NextVoice ==
    \/ \E s \in Single : Run(s)
    \/ \E s \in Single, op \in ProducerOps : ProducerCall(s, op)
    \/ \E s \in Single : ProducerLock(s)
    \/ \E s \in Single : ProducerDone(s)
    \/ \E s \in Single, th \in VoiceThreads, call \in VoiceCalls : VoiceCall(s, th, call)
    \/ \E s \in Single, th \in VoiceThreads : VoiceLock(s, th)
    \/ \E s \in Single, th \in VoiceThreads : VoiceFind(s, th)
    \/ \E s \in Single, th \in VoiceThreads : VoiceQueueLock(s, th)
    \/ \E s \in Single, th \in VoiceThreads : VoicePush(s, th)
    \/ \E s \in Single, th \in VoiceThreads : VoiceReturn(s, th)

InitVoice == InitWith(Single, {FALSE}, {0}, {NULL})

SpecVoice == InitVoice /\ [][NextVoice]_vars

\* The two mutexes: one ready shard with the timer thread, a producer thread
\* and the two voice threads, each taking the steps of its operations one at
\* a time.  No shard has identified in the five seconds before the start, so
\* the wait loop of the handshake never sleeps; the gateway is quiet once the
\* shard is ready; the application calls the shard once it is connected and
\* the queue is empty.
LockFrames == {Hello(NULL, 1000), Dispatch("READY", 1, "abc")}
LockProducerOps == {"push_back", "clear", "size"}
LockVoiceCalls == {k \in VoiceCalls : k.ch # 8}
LockBacklog == 0

Called(s) == IsConnected(shard[s]) /\ Len(shard[s].message_queue) <= LockBacklog

TickLocks == Idle(Single) /\ IdleVoice(Single) /\ Quiet(Single) /\ Advance(MaxLockTime)

NextLocks ==
    \/ TickLocks
    \/ \E s \in Single : Run(s)
    \/ \E s \in Single : ThreadStart(s)
    \/ \E s \in Single : WsHandshake(s)
    \/ \E s \in Single, f \in LockFrames : ~shard[s].ready /\ HandleFrame(s, f)
    \/ \E s \in Single : IdentifyWait(s)
    \/ \E s \in Single : IdentifyWrite(s)
    \/ \E s \in Single : IdentifySet(s)
    \/ \E s \in Single : TimerStart(s)
    \/ \E s \in Single : TimerClear(s)
    \/ \E s \in Single : TimerLock(s)
    \/ \E s \in Single : TimerPop(s)
    \/ \E s \in Single : TimerWrite(s)
    \/ \E s \in Single : TimerHeartbeat(s)
    \/ \E s \in Single : TimerHbLock(s)
    \/ \E s \in Single : TimerHbPush(s)
    \/ \E s \in Single, op \in LockProducerOps : Called(s) /\ ProducerCall(s, op)
    \/ \E s \in Single : ProducerLock(s)
    \/ \E s \in Single : ProducerDone(s)
    \/ \E s \in Single, th \in VoiceThreads, call \in LockVoiceCalls :
          Called(s) /\ VoiceCall(s, th, call)
    \/ \E s \in Single, th \in VoiceThreads : VoiceLock(s, th)
    \/ \E s \in Single, th \in VoiceThreads : VoiceFind(s, th)
    \/ \E s \in Single, th \in VoiceThreads : VoiceQueueLock(s, th)
    \/ \E s \in Single, th \in VoiceThreads : VoicePush(s, th)
    \/ \E s \in Single, th \in VoiceThreads : VoiceReturn(s, th)

InitLocks ==
    /\ InitWith(Single, {FALSE}, {StartTime}, {NULL})
    /\ last_identify = StartTime - IdentifyGate

SpecLocks == InitLocks /\ [][NextLocks]_vars

\* The threads that take the two mutexes; the mutex a thread is about to lock
\* ("none" when it is not at a lock_guard), the mutexes it holds, and the
\* thread that holds a mutex.
LockThreads == {"timer", "producer"} \cup VoiceThreads

Waits(c, th) ==
    CASE th = "timer" ->
           IF c.tpc = "t_hb_lock" \/ (c.tpc = "t_loop" /\ c.x < DrainCount)
           THEN "queue_mutex" ELSE "none"
      [] th = "producer" ->
           IF c.ppc = "p_lock" THEN "queue_mutex" ELSE "none"
      [] OTHER ->
           IF c.vpc[th] = "v_lock" THEN "voice_mutex"
           ELSE IF c.vpc[th] = "v_qlock" THEN "queue_mutex" ELSE "none"

Holder(c, m) == IF m = "queue_mutex" THEN c.queue_mutex ELSE c.voice_mutex

Holds(c, th) == {m \in {"queue_mutex", "voice_mutex"} : Holder(c, m) = th}

\* The steps of the threads that are inside a call.
CallSteps(s) ==
    \/ TimerClear(s) \/ TimerLock(s) \/ TimerPop(s) \/ TimerWrite(s)
    \/ TimerHeartbeat(s) \/ TimerHbLock(s) \/ TimerHbPush(s)
    \/ ProducerLock(s) \/ ProducerDone(s)
    \/ \E th \in VoiceThreads :
          VoiceLock(s, th) \/ VoiceFind(s, th) \/ VoiceQueueLock(s, th)
          \/ VoicePush(s, th) \/ VoiceReturn(s, th)

\* ================================================================== claims
\* C1: any two IDENTIFY writes of the cluster, by the same shard or by two
\* shards, are at least 5 seconds apart.
C1_IdentifySpacing ==
    hist.identGap = NULL \/ hist.identGap >= IdentifyGate

\* C3: a OneSecondTimer call on a connected shard whose last heartbeat ACK is
\* more than 2 x heartbeat_interval / 1000 seconds old clears the queue,
\* closes the socket and neither writes a message nor enqueues a heartbeat.
C3_LivenessTimeout ==
    \A s \in Shards :
        LET k == obs[s].tick
            c == shard[s]
        IN (k.on /\ IsConnected(c)
            /\ (now - c.last_heartbeat_ack) * 1000 > 2 * c.heartbeat_interval) =>
             /\ k.closed /\ c.sfd = "closed" /\ c.message_queue = << >>
             /\ k.wrote = << >> /\ ~k.enq

\* C4: on a shard that stays connected with the same heartbeat interval and
\* is ticked once a second, a heartbeat is written no more than
\* heartbeat_interval milliseconds after the heartbeat before it.
C4_HeartbeatGap ==
    \A s \in Shards :
        obs[s].tick.gap # NULL => obs[s].tick.gap * 1000 <= shard[s].heartbeat_interval

\* C5: whenever the socket of a shard is closed and the process is running,
\* the supervisor loop later connects a new socket, or the process has ended
\* (a SetupZLib failure ends it): the shard is never left closed for good in
\* a running process.
C5_SupervisorReconnects ==
    \A s \in Single :
        (running /\ shard[s].sfd = "closed") ~> (~running \/ shard[s].sfd = "open")

\* The supervisor has connected again after a close and a second close has
\* happened on the new connection.
C5_Witness ==
    \E s \in Single :
        /\ running /\ shard[s].sfd = "closed" /\ shard[s].pc = "read"
        /\ shard[s].zlib = "init" /\ shard[s].resumes = 1 /\ shard[s].reconnects = 1

\* C6: the frames written to the transport within the observed window of 60
\* seconds, whatever second it began at and whatever the producers
\* enqueued, are at most 120.
C6_RateLimit == hist.winCount <= 120

\* The producers kept the queue full through a whole window: 90 frames, two
\* in each odd second and one in each even second.
C6_Witness ==
    /\ hist.winStart # NULL /\ now = hist.winStart + Window - 1
    /\ hist.winCount = 90

\* C2: every HELLO (op 10) that HandleFrame handles writes exactly one
\* handshake frame: RESUME with the current session id and last_seq when the
\* session id is non-empty and last_seq > 0 once the frame's own s has been
\* applied, IDENTIFY otherwise; while the call is still waiting at the gate
\* it has written nothing or its one IDENTIFY.
C2_HelloOneHandshake ==
    \A s \in Shards :
        LET k == obs[s].call
            c == shard[s]
        IN k.op = 10 =>
             IF k.done
             THEN k.hs = IF c.sessionid # "" /\ c.last_seq > 0
                         THEN << Out(6, c.sessionid, c.last_seq) >>
                         ELSE << Out(2, "", 0) >>
             ELSE /\ ~(c.sessionid # "" /\ c.last_seq > 0)
                  /\ k.hs \in {<< >>, << Out(2, "", 0) >>}

\* A HELLO that carried s = 2 was answered by a RESUME with that sequence.
C2_Witness ==
    \E s \in Shards :
        /\ obs[s].call.op = 10 /\ obs[s].call.done /\ obs[s].call.s = 2
        /\ obs[s].call.hs = << Out(6, "abc", 2) >>

\* C7: no two threads are inside an operation of message_queue at the same
\* time.
C7_NoConcurrentQueueAccess ==
    \A s \in Shards : Cardinality(shard[s].inq) <= 1

\* C8: ready implies that the transport is in state CONNECTED.  (A socket
\* closed behind the transport, by the peer or by ::close(sfd), leaves the
\* state CONNECTED and is not counted here.)
C8_ReadyImpliesConnected ==
    \A s \in Shards : shard[s].ready => shard[s].state = "CONNECTED"

\* C9 as stated: when the session was resumable at the drop, the first HELLO
\* after it writes a RESUME with the session id and last_seq of the drop,
\* adds one to resumes and leaves reconnects, connect_time and last_identify.
C9_ResumeCarriesDropValues ==
    \A s \in Shards :
        LET k == obs[s].call
            c == shard[s]
        IN (k.op = 10 /\ k.firstHello /\ k.drop.sessionid # "" /\ k.drop.last_seq > 0) =>
             /\ k.done
             /\ k.hs = << Out(6, k.drop.sessionid, k.drop.last_seq) >>
             /\ c.resumes = k.drop.resumes + 1
             /\ c.reconnects = k.drop.reconnects
             /\ c.connect_time = k.drop.connect_time
             /\ last_identify = k.drop.last_identify

\* C9, amended: the close and the supervisor cycle leave session id and
\* last_seq as they were at the drop; and when the session was resumable at
\* the drop, a HELLO that is the first envelope handled after it and carries
\* no s of its own writes a RESUME with those two values, adds one to resumes
\* and leaves reconnects, connect_time and last_identify.
C9_ResumeAfterDrop ==
    \A s \in Shards :
        LET k == obs[s].call
            c == shard[s]
        IN /\ obs[s].since =>
                /\ c.sessionid = obs[s].drop.sessionid
                /\ c.last_seq = obs[s].drop.last_seq
           /\ (k.op = 10 /\ k.first /\ k.s = NULL
                /\ k.drop.sessionid # "" /\ k.drop.last_seq > 0) =>
                /\ k.done
                /\ k.hs = << Out(6, k.drop.sessionid, k.drop.last_seq) >>
                /\ c.resumes = k.drop.resumes + 1
                /\ c.reconnects = k.drop.reconnects
                /\ c.connect_time = k.drop.connect_time
                /\ last_identify = k.drop.last_identify

\* After a drop with session "abc" and last_seq 1 the first envelope was a
\* HELLO without s, answered by RESUME("abc", 1).
C9_Witness ==
    \E s \in Shards :
        /\ obs[s].call.op = 10 /\ obs[s].call.first /\ obs[s].call.s = NULL
        /\ obs[s].call.drop.sessionid = "abc" /\ obs[s].call.drop.last_seq = 1
        /\ obs[s].call.hs = << Out(6, "abc", 1) >>
        /\ shard[s].resumes = 1

\* C10: a finished HandleFrame call for INVALID_SESSION (op 9) leaves the
\* session id empty and last_seq 0, has written exactly one IDENTIFY and no
\* RESUME, left the wait loop with the gate passed, added one to reconnects
\* and left resumes; before its return it has written no RESUME either.
C10_InvalidSessionReidentifies ==
    \A s \in Shards :
        LET k == obs[s].call
            c == shard[s]
        IN k.op = 9 =>
             /\ c.sessionid = "" /\ c.last_seq = 0
             /\ k.hs \in {<< >>, << Out(2, "", 0) >>}
             /\ c.resumes = k.pre.resumes
             /\ k.done => /\ k.hs = << Out(2, "", 0) >>
                           /\ k.gate
                           /\ c.reconnects = k.pre.reconnects + 1

\* An op 9 frame that carried s = 2 met the session "abc" and the call has
\* returned after its IDENTIFY.
C10_Witness ==
    \E s \in Shards :
        /\ obs[s].call.op = 9 /\ obs[s].call.done /\ obs[s].call.s = 2
        /\ obs[s].call.pre.sessionid = "abc"
        /\ obs[s].call.hs = << Out(2, "", 0) >>
        /\ shard[s].reconnects = 2

\* C11: a HandleFrame call for an inbound HEARTBEAT request (op 1) leaves a
\* heartbeat carrying last_seq at the front of the outbound queue.
C11_HeartbeatRequest ==
    [][\A s \in Single :
          HandleFrame(s, Control(1)) =>
            /\ shard'[s].message_queue # << >>
            /\ Head(shard'[s].message_queue) = HeartbeatFrame(shard'[s])]_vars

\* C12: a heartbeat enqueued by a tick stands at the front of the queue.  In
\* the messages a tick has written followed by those that were queued behind
\* them, the user messages stand in the order they were enqueued, no user
\* message stands before a message enqueued at the front (heartbeat, voice
\* op 4), and of two voice messages the later one stands first; a tick that
\* drains writes from the front of a non-empty queue.  A heartbeat therefore
\* waits only behind messages put at the front after it, however many user
\* messages are queued.
C12_QueueOrder ==
    \A s \in Shards :
        LET k == obs[s].tick
            c == shard[s]
            rest == IF k.enq THEN Tail(c.message_queue) ELSE c.message_queue
            W == k.wrote \o rest
        IN /\ k.enq => Head(c.message_queue) = HeartbeatFrame(c)
           /\ \A i, j \in 1..Len(W) :
                i < j =>
                  /\ (W[i].op = 8 /\ W[j].op = 8) => W[i].seq < W[j].seq
                  /\ Priority(W[j]) => Priority(W[i])
                  /\ (W[i].op = 4 /\ W[j].op = 4) => W[i].seq > W[j].seq
           /\ (k.on /\ ~k.closed /\ IsConnected(c) /\ k.wrote = << >>) =>
                rest = << >>

\* A tick wrote the heartbeat of the tick before it and, ahead of it, a voice
\* message put in front of it afterwards, while a user message enqueued
\* before both is still waiting.
C12_Witness ==
    \E s \in Shards :
        /\ Len(obs[s].tick.wrote) = 2
        /\ obs[s].tick.wrote[1].op = 4 /\ obs[s].tick.wrote[2].op = 1
        /\ \E i \in 1..Len(shard[s].message_queue) :
              /\ shard[s].message_queue[i].op = 8
              /\ shard[s].message_queue[i].seq < obs[s].tick.wrote[1].seq

\* C13: a HandleFrame call whose inflate reports Z_NEED_DICT, Z_STREAM_ERROR,
\* Z_DATA_ERROR or Z_MEM_ERROR closes the transport, returns true, writes
\* nothing and leaves last_seq, the session id, last_heartbeat_ack, ready, the
\* heartbeat interval, the counters and the reader's position as they were;
\* and every connection the supervisor or the constructor makes starts with a
\* zlib context that inflateInit has set up and no frame has gone through,
\* and inflates with a context that is set up.
C13_CodecFailure ==
    [][\A s \in Single :
          LET c == shard[s]
              d == shard'[s]
          IN /\ \A f \in BrokenFrames :
                  (c.compressed /\ f.z \in ZErrors /\ HandleFrame(s, f)) =>
                    /\ d.state = "CLOSED" /\ d.sfd = "closed"
                    /\ obs'[s].call.ret /\ obs'[s].call.done
                    /\ obs'[s].call.hs = << >> /\ hist' = hist
                    /\ d.message_queue = c.message_queue
                    /\ d.last_seq = c.last_seq /\ d.sessionid = c.sessionid
                    /\ d.last_heartbeat_ack = c.last_heartbeat_ack
                    /\ d.heartbeat_interval = c.heartbeat_interval
                    /\ d.ready = c.ready /\ d.pc = c.pc
                    /\ d.reconnects = c.reconnects /\ d.resumes = c.resumes
             /\ (d.compressed /\ d.pc = "read" /\ d.state = "CONNECTING") =>
                  d.zlib = "init"
             /\ (d.compressed /\ d.pc = "read" /\ d.state = "CONNECTED") =>
                  d.zlib \in {"init", "used"}]_vars

\* A compressed shard with session "abc" has just met an inflate error: the
\* transport is closed inside ReadLoop and the context has been used.
C13_Witness ==
    \E s \in Single :
        /\ shard[s].compressed /\ shard[s].pc = "read"
        /\ shard[s].state = "CLOSED" /\ shard[s].zlib = "used"
        /\ shard[s].sessionid = "abc" /\ shard[s].ready
        /\ shard[s].resumes = 1

\* C14: a HandleFrame call whose text json::parse rejects returns true,
\* leaves the transport open, writes and enqueues nothing and leaves every
\* field of the shard (last_seq, session id, heartbeat interval,
\* last_heartbeat_ack, ready, reconnects, resumes, the reader's position) as
\* it was, so that the next frame meets the shard it would have met without
\* it; only the zlib stream of a compressed shard has moved on.
C14_ParseFailure ==
    [][\A s \in Single :
          LET c == shard[s]
              d == shard'[s]
          IN \A f \in BrokenFrames :
                (~f.json /\ (c.compressed => f.z = "Z_OK") /\ HandleFrame(s, f)) =>
                  /\ obs'[s].call.ret /\ obs'[s].call.done
                  /\ obs'[s].call.hs = << >> /\ hist' = hist
                  /\ d.sfd = "open" /\ d.state = "CONNECTED"
                  /\ [d EXCEPT !.zlib = c.zlib] = c
                  /\ last_identify' = last_identify]_vars

\* An unparsable frame has just been handled by a shard that is ready with
\* session "abc" and last_seq 2.
C14_Witness ==
    \E s \in Single :
        /\ ~obs[s].call.parsed /\ obs[s].call.done
        /\ shard[s].ready /\ shard[s].sessionid = "abc" /\ shard[s].last_seq = 2
        /\ shard[s].sfd = "open"

\* C15: there is at most one voice record per guild; and when a voice call
\* is about to return, ConnectVoice(G, C) that found no record for G has
\* stored one with channel C and enqueued one op 4 for (G, C) that stood at
\* the front of the queue, and one that found a record has left the map as it
\* was and enqueued nothing; DisconnectVoice(G) that found a record has
\* removed it and enqueued one op 4 for G with channel null at the front, and
\* one that found none has changed nothing; GetVoice(G) has changed nothing
\* and returns the record for G when there is one and nullptr when not.
C15_VoiceBookkeeping ==
    \A s \in Shards :
        LET m == shard[s].connecting_voice_channels
        IN /\ \A r1, r2 \in m : r1.guild = r2.guild => r1 = r2
           /\ \A th \in VoiceThreads :
                LET k == shard[s].vcall[th]
                    was == Find(k.pre, k.g)
                IN shard[s].vpc[th] = "v_unlock" =>
                     /\ k.had = (was # {})
                     /\ k.front
                     /\ CASE k.op = "connect" /\ was = {} ->
                               /\ m = k.pre \cup {VoiceConn(k.g, k.ch)}
                               /\ k.pushed = << Out(4, k.g, k.ch) >>
                          [] k.op = "disconnect" /\ was # {} ->
                               /\ m = k.pre \ was
                               /\ k.pushed = << Out(4, k.g, NULL) >>
                          [] k.op = "get" ->
                               /\ m = k.pre /\ k.pushed = << >>
                               /\ k.ret = IF was = {} THEN NULL
                                          ELSE (CHOOSE r \in was : TRUE).channel
                          [] OTHER ->
                               m = k.pre /\ k.pushed = << >>

\* A ConnectVoice("g1", 8) that found the record of channel 7 is about to
\* return while the other thread's call waits for voice_mutex, with a user
\* message in the queue.
C15_Witness ==
    \E s \in Shards :
        \E th \in VoiceThreads :
            /\ shard[s].vpc[th] = "v_unlock"
            /\ shard[s].vcall[th].op = "connect" /\ shard[s].vcall[th].ch = 8
            /\ shard[s].vcall[th].had
            /\ shard[s].connecting_voice_channels = {VoiceConn("g1", 7)}
            /\ \E u \in VoiceThreads \ {th} : shard[s].vpc[u] = "v_lock"
            /\ \E i \in 1..Len(shard[s].message_queue) : shard[s].message_queue[i].op = 8

\* C16: a OneSecondTimer call on a connected shard that does not hit the
\* liveness timeout writes, from the front of the queue and in its order,
\* exactly min(k, queue length) messages, where k is 1 when the current second
\* is odd and 2 when it is even.
C16_DrainCount ==
    \A s \in Shards :
        LET k == obs[s].tick
            c == shard[s]
            rest == IF k.enq THEN Tail(c.message_queue) ELSE c.message_queue
            was == Len(k.wrote) + Len(rest)
            n == IF now % 2 = 1 THEN 1 ELSE 2
        IN (k.on /\ ~k.closed /\ IsConnected(c)) =>
             Len(k.wrote) = IF was < n THEN was ELSE n

\* C17: on a compressed shard HandleFrame returns false exactly when the last
\* four bytes of the buffer are not 00 00 FF FF, which includes every buffer
\* shorter than four bytes, and then it has not inflated and has changed
\* nothing of the shard; on an uncompressed shard it returns true.
C17_FrameBoundary ==
    [][\A s \in Single :
          \A f \in CodecFrames :
             HandleFrame(s, f) =>
               IF shard[s].compressed
               THEN /\ obs'[s].call.ret = ~(f.short \/ f.z = "NOTRAILER")
                    /\ ~obs'[s].call.ret => (shard'[s] = shard[s] /\ hist' = hist)
               ELSE obs'[s].call.ret]_vars

\* C18: a message that was in the queue while the supervisor dealt with the
\* end of a connection (ThreadRun lines 107-109, before the clear) is not
\* written to the transport after the supervisor has connected again.
C18_DroppedNotReplayed ==
    [][\A s \in Single : TimerWrite(s) => obs[s].held # "stale"]_vars

\* C19: the reader thread writes no handshake frame (RESUME in HandleFrame,
\* IDENTIFY after the wait loop) while the timer thread is inside the write()
\* of a message it has drained.
C19_SingleWriter ==
    [][\A s \in Single :
          (IdentifyWrite(s) \/ (\E f \in ThreadFrames : HandleFrame(s, f)
                                                        /\ obs'[s].call.hs # << >>))
            => shard[s].tpc # "t_write"]_vars

\* C20: no thread is about to lock voice_mutex while it holds queue_mutex, no
\* thread is about to lock a mutex it holds, no two threads wait for each
\* other's mutex, and whenever a thread is inside a call some thread inside a
\* call can take its next step: ConnectVoice, DisconnectVoice, GetVoice,
\* QueueMessage, ClearQueue, GetQueueSize and OneSecondTimer do not deadlock.
C20_NoDeadlock ==
    \A s \in Single :
        LET c == shard[s]
        IN /\ \A th \in LockThreads :
                /\ Waits(c, th) = "voice_mutex" => "queue_mutex" \notin Holds(c, th)
                /\ Waits(c, th) # "none" => Waits(c, th) \notin Holds(c, th)
           /\ \A a, b \in LockThreads :
                ~ /\ a # b
                  /\ Waits(c, a) # "none" /\ Holder(c, Waits(c, a)) = b
                  /\ Waits(c, b) # "none" /\ Holder(c, Waits(c, b)) = a
           /\ (~Idle({s}) \/ ~IdleVoice({s})) => ENABLED CallSteps(s)

\* ConnectVoice holds voice_mutex and waits for queue_mutex, which the timer
\* thread holds inside write(); the other voice thread waits for voice_mutex
\* and the producer for queue_mutex.
C20_Witness ==
    \E s \in Single :
        \E th \in VoiceThreads :
            /\ shard[s].vpc[th] = "v_qlock" /\ shard[s].voice_mutex = th
            /\ shard[s].vcall[th].op = "connect"
            /\ shard[s].queue_mutex = "timer" /\ shard[s].tpc = "t_write"
            /\ \E u \in VoiceThreads \ {th} : shard[s].vpc[u] = "v_lock"
            /\ shard[s].ppc = "p_lock"

====
